---- MODULE Spec2Model ----
(***************************************************************************)
(* HashLife (rfsmi/game-of-life): the interned quadtree store, the address *)
(* algebra, the step engine's work-stack machine and the facade, modelled  *)
(* from hashlife/src/{p3,lib,eq,basic_state}.rs and gol/src/universe.rs.   *)
(*                                                                         *)
(* A TreeRef is an index into Universe.nodes; Rust counts from 0, the      *)
(* sequences here from 1, so handle h of the model is TreeRef(h - 1).      *)
(***************************************************************************)
EXTENDS Integers, Sequences, FiniteSets, TLC

(***************************************************************************)
(* Bounds of the model.                                                    *)
(***************************************************************************)
\* largest log2_steps handed to step(), but in SpecDeep
MaxK == 2
\* most calls (from_iter, set_bit, step) made on an instance in Spec
MaxCalls == 3
\* largest log2_steps handed to step() in SpecDeep
MaxDeepK == 3
\* most calls made on each instance in SpecEq
MaxEqCalls == 2
\* most step() calls made before the clone in SpecClone
MaxPreSteps == 2
\* most calls made on the instance in SpecLoad
MaxLoadCalls == 3

\* the calls of step on a pattern of constant population
MaxPopSteps == 3

\* most characters of a text handed to from_str in SpecParse
MaxTextLen == 4

\* the greatest superspeed_depth of a direct call of Universe::step
MaxSuperspeedDepth == 4

\* most direct calls of expand_universe in SpecExpand
MaxExpands == 2

\* the greatest depth z of a coordinate handed to descend in SpecDescend; its
\* y and x run over -2^z .. 2^z, inside and outside the tree
MaxP3Depth == 3

\* most direct calls of reframe in SpecReframe
MaxReframes == 1

\* the greatest depth z of a node asked of reframe in SpecReframe
MaxCropDepth == 2

\* most direct calls of Universe::step in a row in SpecRec
MaxRecSteps == 2

\* the width of isize in bits: 64 on the usual targets, 16 on the narrowest
\* Rust has; the model takes the narrowest, whose shifts it can hold
WordBits == 16

\* the greatest log2_steps of a step in SpecWord, WordBits - 2: the first
\* whose root has the depth WordBits - 1
MaxWordK == 14

VARIABLES
    hl,      \* hl[i]: HashLife instance i: [universe, depth, root]
    cur,     \* the instance whose step() call is running the engine, 0 if none
    ssd,     \* superspeed_depth of the running Universe::step call
    stack,   \* Universe::step's work stack (top at the end)
    done,    \* Universe::step's result stack (top at the end)
    ref,     \* ref[i]: the BasicState reference world fed the same calls
    calls,   \* calls[i]: the facade calls made on instance i so far
    pre      \* the live cells of the instance before its latest set_bit

vars == <<hl, cur, ssd, stack, done, ref, calls, pre>>

Inst == {1, 2}

(***************************************************************************)
(* P3: hashlife/src/p3.rs                                                  *)
(***************************************************************************)
P3(y, x, z) == [y |-> y, x |-> x, z |-> z]

origin(z) == P3(0, 0, z)

\* an integer as the isize of the same bits: two's complement, WordBits wide
Wrap(v) == ((v + 2 ^ (WordBits - 1)) % 2 ^ WordBits) - 2 ^ (WordBits - 1)

\* 1 << n on isize, for the shift amounts below the width (at the width and
\* above the shift panics or masks its amount, by the build; no run of the
\* model shifts that far, and TLC stops with an error if one does)
Shl(n) == CASE n < WordBits -> Wrap(2 ^ n)

\* -1 << n on isize
ShlNeg(n) == CASE n < WordBits -> Wrap(-(2 ^ n))

\* (-w..w).contains(v)
InRange(w, v) == -w <= v /\ v < w

\* contains with the ranges closed at their upper ends, -w..=w
contains_closed(self, other) ==
    IF other.z >= self.z
    THEN self = other
    ELSE /\ -Shl(self.z - other.z - 1) <= other.y - self.y
         /\ other.y - self.y <= Shl(self.z - other.z - 1)
         /\ -Shl(self.z - other.z - 1) <= other.x - self.x
         /\ other.x - self.x <= Shl(self.z - other.z - 1)

contains(self, other) ==
    IF other.z >= self.z
    THEN self = other
    ELSE LET rel_y == other.y - self.y
             rel_x == other.x - self.x
             rel_z == self.z - other.z
             w == Shl(rel_z - 1)
         IN  InRange(w, rel_y) /\ InRange(w, rel_x)

within_tree(p) == contains(origin(p.z), P3(p.y, p.x, 0))

\* descend without the branch for z == 1: the offset is added at every depth
descend_offset_always(p) ==
    IF p.z = 0
    THEN [some |-> FALSE, i |-> 0, p |-> p]
    ELSE LET w == Shl(p.z) \div 4
             m == IF p.y < 0 /\ p.x < 0 THEN <<0, w, w>>
                  ELSE IF p.y < 0 THEN <<1, w, -w>>
                  ELSE IF p.x < 0 THEN <<2, -w, w>>
                  ELSE <<3, -w, -w>>
         IN  [some |-> TRUE, i |-> m[1], p |-> P3(p.y + m[2], p.x + m[3], p.z - 1)]

\* descend: [some |-> FALSE] for None, else the quadrant index (0..3) and the
\* updated coordinate
descend(p) ==
    IF p.z = 0
    THEN [some |-> FALSE, i |-> 0, p |-> p]
    ELSE LET w == Shl(p.z) \div 4
             m == IF p.y < 0 /\ p.x < 0 THEN <<0, w, w>>
                  ELSE IF p.y < 0 THEN <<1, w, -w>>
                  ELSE IF p.x < 0 THEN <<2, -w, w>>
                  ELSE <<3, -w, -w>>
             yx == IF p.z = 1 THEN <<0, 0>> ELSE <<p.y + m[2], p.x + m[3]>>
         IN  [some |-> TRUE, i |-> m[1], p |-> P3(yx[1], yx[2], p.z - 1)]

\* quadrants with the second and the third centre exchanged
quadrants_exchanged(p) ==
    IF p.z = 0
    THEN <<>>
    ELSE << P3(p.y + ShlNeg(p.z) \div 4, p.x + ShlNeg(p.z) \div 4, p.z - 1),
            P3(p.y + Shl(p.z) \div 4, p.x + ShlNeg(p.z) \div 4, p.z - 1),
            P3(p.y + ShlNeg(p.z) \div 4, p.x + Shl(p.z) \div 4, p.z - 1),
            P3(p.y + Shl(p.z) \div 4, p.x + Shl(p.z) \div 4, p.z - 1) >>

\* quadrants: <<>> for None, else the four child centres; >> on isize is
\* the flooring division
quadrants(p) ==
    IF p.z = 0
    THEN <<>>
    ELSE LET pos == Shl(p.z) \div 4
             neg == ShlNeg(p.z) \div 4
         IN  << P3(p.y + neg, p.x + neg, p.z - 1),
                P3(p.y + neg, p.x + pos, p.z - 1),
                P3(p.y + pos, p.x + neg, p.z - 1),
                P3(p.y + pos, p.x + pos, p.z - 1) >>

(***************************************************************************)
(* Universe: gol/src/universe.rs                                           *)
(***************************************************************************)
Leaf(alive) == [leaf |-> TRUE, alive |-> alive, subtree |-> <<>>]

Branch(subtree) == [leaf |-> FALSE, alive |-> FALSE, subtree |-> subtree]

\* Universe::default()
EmptyUniverse ==
    [ nodes |-> <<>>, empty_trees |-> <<>>, populations |-> <<>>,
      next_gen |-> <<>>, interned_nodes |-> <<>> ]

\* results of the &mut self methods: the store after the call and the handle
Ret(u, tr) == [u |-> u, tr |-> tr]

\* the population of a node counted over three of its four children
NodePopulation_three(u, tree) ==
    IF tree.leaf
    THEN IF tree.alive THEN 1 ELSE 0
    ELSE u.populations[tree.subtree[1]] + u.populations[tree.subtree[2]]
         + u.populations[tree.subtree[3]]

NodePopulation(u, tree) ==
    IF tree.leaf
    THEN IF tree.alive THEN 1 ELSE 0
    ELSE u.populations[tree.subtree[1]] + u.populations[tree.subtree[2]]
         + u.populations[tree.subtree[3]] + u.populations[tree.subtree[4]]

\* canonicalise without the lookup: every call makes a new handle
canonicalise_always_new(u, tree) ==
    Ret([u EXCEPT !.populations = Append(@, NodePopulation(u, tree)),
                  !.nodes = Append(@, tree),
                  !.interned_nodes = (tree :> Len(u.nodes) + 1) @@ @],
        Len(u.nodes) + 1)

canonicalise(u, tree) ==
    IF tree \in DOMAIN u.interned_nodes
    THEN Ret(u, u.interned_nodes[tree])
    ELSE LET tr == Len(u.nodes) + 1
         IN  Ret([u EXCEPT !.populations = Append(@, NodePopulation(u, tree)),
                           !.nodes = Append(@, tree),
                           !.interned_nodes = (tree :> tr) @@ @],
                 tr)

\* self.empty_trees.push(tr), tr the handle r holds
PushEmpty(r) == [r.u EXCEPT !.empty_trees = Append(@, r.tr)]

RECURSIVE GrowEmpty_unshared(_, _)
\* the while loop of empty_tree, making a new node at every level whether or
\* not the store has that node
GrowEmpty_unshared(u, depth) ==
    IF Len(u.empty_trees) > depth
    THEN u
    ELSE GrowEmpty_unshared(
             PushEmpty(canonicalise_always_new(u,
                 IF u.empty_trees = <<>>
                 THEN Leaf(FALSE)
                 ELSE LET tr == u.empty_trees[Len(u.empty_trees)]
                      IN  Branch(<<tr, tr, tr, tr>>))),
             depth)

RECURSIVE GrowEmpty(_, _)
\* the while loop of empty_tree
GrowEmpty(u, depth) ==
    IF Len(u.empty_trees) > depth
    THEN u
    ELSE GrowEmpty(
             PushEmpty(canonicalise(u,
                 IF u.empty_trees = <<>>
                 THEN Leaf(FALSE)
                 ELSE LET tr == u.empty_trees[Len(u.empty_trees)]
                      IN  Branch(<<tr, tr, tr, tr>>))),
             depth)

\* self.empty_trees[depth]
EmptyAt(u, depth) == Ret(u, u.empty_trees[depth + 1])

empty_tree(u, depth) == EmptyAt(GrowEmpty(u, depth), depth)

\* alive() and subtree() panic on the other variant; the model has no value
\* for it, and TLC stops with an error if a run ever asks
alive(u, tr) == CASE u.nodes[tr].leaf -> u.nodes[tr].alive

subtree(u, tr) == CASE ~u.nodes[tr].leaf -> u.nodes[tr].subtree

population(u, tr) == u.populations[tr]

RECURSIVE get_node(_, _, _)
get_node(u, tr, p) ==
    LET d == descend(p)
    IN  IF d.some THEN get_node(u, subtree(u, tr)[d.i + 1], d.p) ELSE tr

RECURSIVE SetBitPath(_, _, _)
\* the descent of set_bit: the stack of (subtree, i), root first
SetBitPath(u, tr, p) ==
    LET d == descend(p)
    IN  IF d.some
        THEN <<[subtree |-> subtree(u, tr), i |-> d.i]>>
             \o SetBitPath(u, subtree(u, tr)[d.i + 1], d.p)
        ELSE <<>>

\* the closure of set_bit's fold: subtree[i] = tr, the handle r holds
SetBitNode(r, e) == canonicalise(r.u, Branch([e.subtree EXCEPT ![e.i + 1] = r.tr]))

RECURSIVE SetBitFold(_, _)
\* the fold of set_bit over the reversed stack, from the result r so far
SetBitFold(r, path) ==
    IF path = <<>>
    THEN r
    ELSE CASE r.tr >= 1 ->
             SetBitFold(SetBitNode(r, path[Len(path)]),
                        SubSeq(path, 1, Len(path) - 1))

set_bit(u, tr, p) == SetBitFold(canonicalise(u, Leaf(TRUE)), SetBitPath(u, tr, p))

\* the store and the handles a run of &mut self calls has returned so far
Collected(u, trs) == [u |-> u, trs |-> trs]

\* one more call has returned r
Collect(acc, r) == Collected(r.u, Append(acc.trs, r.tr))

RECURSIVE CanonicaliseAll(_, _, _)
\* self.canonicalise(tree) for the trees from the n-th on, in array order
CanonicaliseAll(acc, trees, n) ==
    IF n > Len(trees)
    THEN acc
    ELSE CASE Len(acc.trs) = n - 1 ->
             CanonicaliseAll(Collect(acc, canonicalise(acc.u, trees[n])),
                             trees, n + 1)

\* self.canonicalise(Tree::Branch(subtree)) of the handles collected
CanonicaliseBranch(acc) == canonicalise(acc.u, Branch(acc.trs))

\* expand_universe that leaves each old quadrant in the outer corner of the
\* new one
ExpandAround_corners(s, b) ==
    CanonicaliseBranch(
        CanonicaliseAll(Collected(b.u, <<>>),
            << Branch(<<s[1], b.tr, b.tr, b.tr>>),
               Branch(<<b.tr, s[2], b.tr, b.tr>>),
               Branch(<<b.tr, b.tr, s[3], b.tr>>),
               Branch(<<b.tr, b.tr, b.tr, s[4]>>) >>,
            1))

\* expand_universe from the call of empty_tree (b) on; s is self.subtree(tr)
ExpandAround(s, b) ==
    CanonicaliseBranch(
        CanonicaliseAll(Collected(b.u, <<>>),
            << Branch(<<b.tr, b.tr, b.tr, s[1]>>),
               Branch(<<b.tr, b.tr, s[2], b.tr>>),
               Branch(<<b.tr, s[3], b.tr, b.tr>>),
               Branch(<<s[4], b.tr, b.tr, b.tr>>) >>,
            1))

\* expand_universe with let border = self.empty_tree(level)
expand_universe_border_level(u, level, tr) ==
    ExpandAround(subtree(u, tr), empty_tree(u, level))

expand_universe(u, level, tr) ==
    ExpandAround(subtree(u, tr), empty_tree(u, level - 1))

\* the entries of reframe's todo stack
Reframe(p) == [state |-> "Reframe", p |-> p]

Canonicalise == [state |-> "Canonicalise", p |-> origin(0)]

\* State::Canonicalise of reframe, given what canonicalise returned
ReframeDone(r, dn) == [u |-> r.u, dn |-> Append(SubSeq(dn, 1, Len(dn) - 4), r.tr)]

RECURSIVE ReframeLoop(_, _, _, _)
\* the while loop of reframe; z is the depth at which get_node reads tr, and
\* st holds the store and the done stack
ReframeLoop(st, tr, z, todo) ==
    IF todo = <<>>
    THEN Ret(st.u, st.dn[Len(st.dn)])
    ELSE CASE Len(st.dn) >= 0 ->
        LET state == todo[Len(todo)]
            rest == SubSeq(todo, 1, Len(todo) - 1)
            n == Len(st.dn)
        IN  IF state.state = "Reframe"
            THEN IF quadrants(state.p) # <<>>
                 THEN ReframeLoop(st, tr, z,
                          rest \o <<Canonicalise>>
                               \o << Reframe(quadrants(state.p)[1]),
                                     Reframe(quadrants(state.p)[2]),
                                     Reframe(quadrants(state.p)[3]),
                                     Reframe(quadrants(state.p)[4]) >>)
                 ELSE ReframeLoop(
                          [st EXCEPT !.dn = Append(@,
                              get_node(st.u, tr, [state.p EXCEPT !.z = z]))],
                          tr, z, rest)
            ELSE ReframeLoop(
                     ReframeDone(
                         canonicalise(st.u,
                             Branch(<<st.dn[n], st.dn[n - 1],
                                      st.dn[n - 2], st.dn[n - 3]>>)),
                         st.dn),
                     tr, z, rest)

RECURSIVE ReframePops(_, _)
\* the result stack of reframe's loop, by its length n alone: the lengths
\* each State::Canonicalise finds before its four pops, in the order they
\* run, then the length left when todo is empty
ReframePops(todo, n) ==
    IF todo = <<>>
    THEN <<n>>
    ELSE LET state == todo[Len(todo)]
             rest == SubSeq(todo, 1, Len(todo) - 1)
         IN  IF state.state = "Reframe"
             THEN IF quadrants(state.p) # <<>>
                  THEN ReframePops(
                           rest \o <<Canonicalise>>
                                \o << Reframe(quadrants(state.p)[1]),
                                      Reframe(quadrants(state.p)[2]),
                                      Reframe(quadrants(state.p)[3]),
                                      Reframe(quadrants(state.p)[4]) >>,
                           n)
                  ELSE ReframePops(rest, n + 1)
             ELSE <<n>> \o ReframePops(rest, n - 3)

RECURSIVE ReframeLeaves(_)
\* the coordinates of depth 0 that State::Reframe(p) ends in: p.quadrants()
\* all the way down
ReframeLeaves(p) ==
    IF quadrants(p) = <<>>
    THEN {p}
    ELSE UNION {ReframeLeaves(quadrants(p)[n]) : n \in 1..4}

\* the coordinates reframe(tr, p, z) hands to get_node: P3 { z, ..p } with
\* the z of the p it was called with
reframe_reads(p, z) ==
    {[q EXCEPT !.z = p.z] : q \in ReframeLeaves([p EXCEPT !.z = z])}

\* reframe that crops about the centre of tr, whatever p is
reframe_about_origin(u, tr, p, z) ==
    ReframeLoop([u |-> u, dn |-> <<>>], tr, p.z, <<Reframe(origin(z))>>)

reframe(u, tr, p, z) ==
    ReframeLoop([u |-> u, dn |-> <<>>], tr, p.z, <<Reframe([p EXCEPT !.z = z])>>)

\* the entries of Universe::step's work stack
StepState(tr, depth) == [state |-> "Step", tr |-> tr, depth |-> depth, flag |-> FALSE]

Push9(tr, depth) == [state |-> "Push9", tr |-> tr, depth |-> depth, flag |-> FALSE]

Pop9Into4(depth) == [state |-> "Pop9Into4", tr |-> 0, depth |-> depth, flag |-> FALSE]

Pop4Into1 == [state |-> "Pop4Into1", tr |-> 0, depth |-> 0, flag |-> FALSE]

UpdateCache(tr, flag) == [state |-> "UpdateCache", tr |-> tr, depth |-> 0, flag |-> flag]

\* bit n of a u16
Bit(bitmask, n) == (bitmask \div Shl(n)) % 2

\* (bitmask & 0b0111_0101_0111).count_ones()
Neighbours(bitmask) ==
    Bit(bitmask, 0) + Bit(bitmask, 1) + Bit(bitmask, 2) + Bit(bitmask, 4)
    + Bit(bitmask, 6) + Bit(bitmask, 8) + Bit(bitmask, 9) + Bit(bitmask, 10)

\* fn leaf of l2_gen with (true, 3) | (false, 3) as the live arm: a live cell
\* with two live neighbours dies
l2_leaf_three_only(bitmask, shift) ==
    Leaf(Neighbours(bitmask \div Shl(shift)) = 3)

\* fn leaf of l2_gen, on bitmask >> shift
l2_leaf(bitmask, shift) ==
    LET b == bitmask \div Shl(shift)
        center == Bit(b, 5) # 0
        neighbours == Neighbours(b)
    IN  Leaf((center /\ neighbours \in {2, 3}) \/ (~center /\ neighbours = 3))

l2_gen(u, bitmask) ==
    CanonicaliseBranch(
        CanonicaliseAll(Collected(u, <<>>),
            << l2_leaf(bitmask, 5), l2_leaf(bitmask, 4),
               l2_leaf(bitmask, 1), l2_leaf(bitmask, 0) >>,
            1))

RECURSIVE BitmaskFrom_by_columns(_, _, _, _)
\* the two for loops of make_l2_bitmask with x in the outer loop
BitmaskFrom_by_columns(u, tr, n, bitmask) ==
    IF n = 16
    THEN bitmask
    ELSE LET x == (n \div 4) - 2
             y == (n % 4) - 2
             node == get_node(u, tr, P3(y, x, 2))
         IN  BitmaskFrom_by_columns(u, tr, n + 1,
                 bitmask * 2 + (IF alive(u, node) THEN 1 ELSE 0))

RECURSIVE BitmaskFrom(_, _, _, _)
\* the two for loops of make_l2_bitmask, from the n-th cell on (row-major)
BitmaskFrom(u, tr, n, bitmask) ==
    IF n = 16
    THEN bitmask
    ELSE LET y == (n \div 4) - 2
             x == (n % 4) - 2
             node == get_node(u, tr, P3(y, x, 2))
         IN  BitmaskFrom(u, tr, n + 1,
                 bitmask * 2 + (IF alive(u, node) THEN 1 ELSE 0))

make_l2_bitmask(u, tr) == BitmaskFrom(u, tr, 0, 0)

\* the coordinates make_l2_bitmask hands to get_node
make_l2_bitmask_reads == {P3(y, x, 2) : y \in -2..1, x \in -2..1}

RECURSIVE ReframeAll(_, _, _, _)
\* [..].map(|x| self.reframe(..)) in array order: job n reframes jobs[n].tr
\* at jobs[n].p to depth z
ReframeAll(acc, jobs, z, n) ==
    IF n > Len(jobs)
    THEN acc
    ELSE CASE Len(acc.trs) = n - 1 ->
             ReframeAll(Collect(acc, reframe(acc.u, jobs[n].tr, jobs[n].p, z)),
                        jobs, z, n + 1)

\* the nine subquadrants with z: 2 for z: 3 in their coordinates
Nine_at_depth_2(tr) ==
    [i \in 1..9 |->
        [tr |-> tr, p |-> P3(((i - 1) \div 3) * 2 - 2, ((i - 1) % 3) * 2 - 2, 2)]]

\* the nine overlapping subquadrants of Push9, i = 0..8
Nine(tr) ==
    [i \in 1..9 |->
        [tr |-> tr, p |-> P3(((i - 1) \div 3) * 2 - 2, ((i - 1) % 3) * 2 - 2, 3)]]

Reverse(s) == [i \in 1..Len(s) |-> s[Len(s) + 1 - i]]

(***************************************************************************)
(* BasicState: hashlife/src/basic_state.rs                                 *)
(***************************************************************************)
neighbours(p) ==
    {<<p[1] + dy, p[2] + dx>> : dy \in -1..1, dx \in -1..1} \ {p}

BasicState_step(cells) ==
    LET counted == UNION {neighbours(p1) : p1 \in cells}
        count(p) == Cardinality(neighbours(p) \cap cells)
    IN  {p \in counted :
            \/ count(p) \in {2, 3} /\ p \in cells
            \/ count(p) = 3 /\ p \notin cells}

RECURSIVE Generations(_, _)
\* n calls of BasicState::step
Generations(cells, n) ==
    IF n = 0
    THEN cells
    ELSE LET next == BasicState_step(cells)
         IN  CASE next = next -> Generations(next, n - 1)

\* the least and the greatest of a set of isize
Min(vs) == CHOOSE v \in vs : \A w \in vs : v <= w

Max(vs) == CHOOSE v \in vs : \A w \in vs : w <= v

\* span(): the ranges ys and xs, each start..end without end; Span::Empty is
\* [covers |-> FALSE]
span(cells) ==
    IF cells = {}
    THEN [covers |-> FALSE, ys |-> <<0, 0>>, xs |-> <<0, 0>>]
    ELSE [covers |-> TRUE,
          ys |-> <<Min({c[1] : c \in cells}), Max({c[1] : c \in cells}) + 1>>,
          xs |-> <<Min({c[2] : c \in cells}), Max({c[2] : c \in cells}) + 1>>]

\* normalize() from the let-else on, sp the span
Normalized(cells, sp) ==
    LET dy == sp.ys[1] + (sp.ys[2] - sp.ys[1]) \div 2
        dx == sp.xs[1] + (sp.xs[2] - sp.xs[1]) \div 2
    IN  IF <<dy, dx>> # <<0, 0>>
        THEN {<<c[1] - dy, c[2] - dx>> : c \in cells}
        ELSE cells

normalize(cells) ==
    IF span(cells).covers THEN Normalized(cells, span(cells)) ELSE cells

RECURSIVE LinesFrom(_, _, _, _)
\* str::lines from the n-th character on: line is the line being read and
\* acc the lines before it; a final line without '\n' is a line, nothing
\* follows a final '\n'
LinesFrom(text, n, line, acc) ==
    IF n > Len(text)
    THEN IF line = <<>> THEN acc ELSE Append(acc, line)
    ELSE IF text[n] = "\n"
         THEN LinesFrom(text, n + 1, <<>>, Append(acc, line))
         ELSE LinesFrom(text, n + 1, Append(line, text[n]), acc)

\* s.lines(), s a sequence of characters
lines(text) == LinesFrom(text, 1, <<>>, <<>>)

\* the places (y, x) of the characters of s that are neither ' ' nor 'o'
Unexpected(s) ==
    {p \in UNION {{<<y, x>> : x \in DOMAIN s[y]} : y \in DOMAIN s} :
        s[p[1]][p[2]] \notin {" ", "o"}}

\* the first of them as the two for loops meet them
FirstUnexpected(s) ==
    CHOOSE p \in Unexpected(s) :
        \A q \in Unexpected(s) : p[1] < q[1] \/ (p[1] = q[1] /\ p[2] <= q[2])

\* format!("Unexpected character {c}"), c the character at place p
UnexpectedCharacter(s, p) == "Unexpected character " \o s[p[1]][p[2]]

\* from_str that reads every character but 'o' as a dead cell
BasicState_from_str_lenient(s) ==
    [ok |-> TRUE,
     cells |-> normalize(UNION {{<<y - 1, x - 1>> :
                                    x \in {x \in DOMAIN s[y] : s[y][x] = "o"}} :
                                y \in DOMAIN s})]

\* BasicState::from_str on the lines of s, each a sequence of characters:
\* Err(message) at the first character that is neither ' ' nor 'o', else
\* Ok(state), normalized
BasicState_from_str(s) ==
    IF Unexpected(s) # {}
    THEN [ok |-> FALSE, err |-> UnexpectedCharacter(s, FirstUnexpected(s))]
    ELSE [ok |-> TRUE,
          cells |-> normalize(UNION {{<<y - 1, x - 1>> :
                                         x \in {x \in DOMAIN s[y] : s[y][x] = "o"}} :
                                     y \in DOMAIN s})]

RECURSIVE InOrder(_)
\* one order in which a HashSet of cells may be iterated: row by row
InOrder(cells) ==
    IF cells = {}
    THEN <<>>
    ELSE LET c == CHOOSE c \in cells :
                      \A d \in cells : c[1] < d[1] \/ (c[1] = d[1] /\ c[2] <= d[2])
         IN  <<c>> \o InOrder(cells \ {c})

(***************************************************************************)
(* HashLife: hashlife/src/lib.rs                                           *)
(***************************************************************************)
HashLife(u, depth, root) == [universe |-> u, depth |-> depth, root |-> root]

\* the instance whose store and root a &mut self call of the store returned
Rooted(r, depth) == HashLife(r.u, depth, r.tr)

HashLife_new == Rooted(empty_tree(EmptyUniverse, 2), 2)

expand(h) == Rooted(expand_universe(h.universe, h.depth, h.root), h.depth + 1)

RECURSIVE ExpandUntilWithin(_, _, _)
\* while !P3::new(y, x, self.depth).within_tree() { self.expand() }
ExpandUntilWithin(h, y, x) ==
    IF within_tree(P3(y, x, h.depth))
    THEN h
    ELSE ExpandUntilWithin(expand(h), y, x)

\* the last two lines of set_bit
SetBitAt(h, c) ==
    Rooted(set_bit(h.universe, h.root, P3(c[1], c[2], h.depth)), h.depth)

HashLife_set_bit(h, c) == SetBitAt(ExpandUntilWithin(h, c[1], c[2]), c)

RECURSIVE from_iter_from(_, _, _)
\* the for loop of from_iter, from the n-th cell on
from_iter_from(h, cells, n) ==
    IF n > Len(cells)
    THEN h
    ELSE CASE h.depth >= 2 ->
             from_iter_from(HashLife_set_bit(h, cells[n]), cells, n + 1)

from_iter(cells) == from_iter_from(HashLife_new, cells, 1)

\* HashLife::from_str: Err, or the world collected from the cells of the
\* BasicState in the order its HashSet yields them
HashLife_from_str(parsed, order) ==
    IF parsed.ok
    THEN [ok |-> TRUE, hl |-> from_iter(order)]
    ELSE [ok |-> FALSE, err |-> parsed.err]

RECURSIVE ExpandUntilDepth(_, _)
\* while self.depth < superspeed_depth - 1 { self.expand() }
ExpandUntilDepth(h, superspeed_depth) ==
    IF h.depth < superspeed_depth - 1
    THEN ExpandUntilDepth(expand(h), superspeed_depth)
    ELSE h

\* if population(center) != population(root) { self.expand() }, center being
\* what reframe returned; the store is the one reframe left
ExpandIfBorder(h, center) ==
    IF population(center.u, center.tr) # population(center.u, h.root)
    THEN expand(HashLife(center.u, h.depth, h.root))
    ELSE HashLife(center.u, h.depth, h.root)

\* step without its expansions: only the call of reframe acts on the store
ExpandForStep_no_expand(h) ==
    HashLife(reframe(h.universe, h.root, origin(2), 1).u, h.depth, h.root)

\* the lines of step from the call of reframe to the second expand
ExpandForStep(h) ==
    expand(ExpandIfBorder(h, reframe(h.universe, h.root, origin(2), 1)))

\* HashLife::step up to the call of Universe::step: the instance handed to
\* the engine
step_prepare(h, superspeed_depth) ==
    ExpandForStep(ExpandUntilDepth(h, superspeed_depth))

RECURSIVE into_iter_from(_, _, _)
\* into_iter's walk below (tr, p): the stack pops the last child first
into_iter_from(u, tr, p) ==
    IF population(u, tr) = 0
    THEN <<>>
    ELSE LET ps == quadrants(p)
             s == subtree(u, tr)
         IN  IF ps # <<>>
             THEN into_iter_from(u, s[4], ps[4]) \o into_iter_from(u, s[3], ps[3])
                  \o into_iter_from(u, s[2], ps[2]) \o into_iter_from(u, s[1], ps[1])
             ELSE IF alive(u, tr) THEN << <<p.y, p.x>> >> ELSE <<>>

into_iter(h) == into_iter_from(h.universe, h.root, origin(h.depth))

Range(s) == {s[n] : n \in DOMAIN s}

\* the live cells of an instance, as its iterator yields them
LiveCells(h) == Range(into_iter(h))

(***************************************************************************)
(* What a handle denotes: enum Tree of gol/src/universe.rs read as a tree  *)
(* of cells, without the populations and without the iterator.             *)
(***************************************************************************)
RECURSIVE Uniform(_, _, _)
\* tr is a tree with z branch levels above its leaves, on every path
Uniform(u, tr, z) ==
    IF z = 0
    THEN u.nodes[tr].leaf
    ELSE /\ ~u.nodes[tr].leaf
         /\ \A n \in 1..4 : Uniform(u, u.nodes[tr].subtree[n], z - 1)

RECURSIVE Height(_, _)
\* the branch levels above the leaves, along the first children
Height(u, tr) ==
    IF u.nodes[tr].leaf THEN 0 ELSE 1 + Height(u, u.nodes[tr].subtree[1])

\* the centres of the four children of a node centred at p: quadrant 0 is
\* the one of the smaller y and x, quadrant 3 the one of the larger
ChildCentre(p, n) ==
    P3(p.y + (IF n \in {1, 2} THEN -Shl(p.z) ELSE Shl(p.z)) \div 4,
       p.x + (IF n \in {1, 3} THEN -Shl(p.z) ELSE Shl(p.z)) \div 4,
       p.z - 1)

RECURSIVE NodeCells(_, _, _)
\* the live leaves under tr, a node centred at p, as cells (y, x)
NodeCells(u, tr, p) ==
    IF u.nodes[tr].leaf
    THEN IF u.nodes[tr].alive THEN {<<p.y, p.x>>} ELSE {}
    ELSE UNION {NodeCells(u, u.nodes[tr].subtree[n], ChildCentre(p, n)) : n \in 1..4}

\* the cells of the central subquadrant of a node of depth z
Centre(cells, z) ==
    {c \in cells : /\ -Shl(z - 2) <= c[1] /\ c[1] < Shl(z - 2)
                   /\ -Shl(z - 2) <= c[2] /\ c[2] < Shl(z - 2)}

RECURSIVE LeastDepth(_, _)
\* the least D >= depth whose square -2^(D-1) .. 2^(D-1) - 1 holds the cells
LeastDepth(cells, depth) ==
    IF \A c \in cells : /\ -Shl(depth - 1) <= c[1] /\ c[1] < Shl(depth - 1)
                        /\ -Shl(depth - 1) <= c[2] /\ c[2] < Shl(depth - 1)
    THEN depth
    ELSE LeastDepth(cells, depth + 1)

(***************************************************************************)
(* PartialEq for HashLife: hashlife/src/eq.rs                              *)
(***************************************************************************)
\* Context: a handle of hl with the coordinate of its node
Context(tr, p) == [tr |-> tr, p |-> p]

\* divide that hands out the first child four times
divide_first(h, c, i) == Context(subtree(h.universe, c.tr)[1], quadrants(c.p)[1])

\* Context::divide, child i (0..3)
divide(h, c, i) == Context(subtree(h.universe, c.tr)[i + 1], quadrants(c.p)[i + 1])

\* what the loop of eq has found so far: the verdict and the two caches
EqState(eq, a_b_cache, b_a_cache) ==
    [eq |-> eq, a_b_cache |-> a_b_cache, b_a_cache |-> b_a_cache]

RECURSIVE EqVisit(_, _, _, _, _)
\* the loop of eq from the pair (a, b) on: the pairs below it are popped
\* before whatever was pushed earlier, the last child first; st.eq = FALSE
\* once the loop has returned false
EqVisit(ha, hb, a, b, st) ==
    IF ~st.eq
    THEN st
    ELSE IF population(ha.universe, a.tr) # population(hb.universe, b.tr)
    THEN [st EXCEPT !.eq = FALSE]
    ELSE IF population(ha.universe, a.tr) = 0 \/ a.p.z = 0
    THEN st
    ELSE LET a_had == b.tr \in DOMAIN st.b_a_cache
             b_had == a.tr \in DOMAIN st.a_b_cache
             ins == EqState(TRUE, (a.tr :> b.tr) @@ st.a_b_cache,
                                  (b.tr :> a.tr) @@ st.b_a_cache)
             ok == IF a_had /\ b_had
                   THEN st.b_a_cache[b.tr] = a.tr /\ st.a_b_cache[a.tr] = b.tr
                   ELSE ~a_had /\ ~b_had
             s4 == EqVisit(ha, hb, divide(ha, a, 3), divide(hb, b, 3), ins)
             s3 == EqVisit(ha, hb, divide(ha, a, 2), divide(hb, b, 2), s4)
             s2 == EqVisit(ha, hb, divide(ha, a, 1), divide(hb, b, 1), s3)
         IN  IF ~ok
             THEN [st EXCEPT !.eq = FALSE]
             ELSE CASE s4.eq \in BOOLEAN /\ s3.eq \in BOOLEAN /\ s2.eq \in BOOLEAN ->
                      EqVisit(ha, hb, divide(ha, a, 0), divide(hb, b, 0), s2)

HashLife_eq(ha, hb) ==
    IF ha.depth # hb.depth
    THEN FALSE
    ELSE EqVisit(ha, hb, Context(ha.root, origin(ha.depth)),
                 Context(hb.root, origin(hb.depth)),
                 EqState(TRUE, <<>>, <<>>)).eq

(***************************************************************************)
(* Inputs of the model.                                                    *)
(***************************************************************************)
\* the cells set_bit is called with: a blinker's three cells, one above its
\* middle, and one that needs a depth-3 root
CellPool == {<<0, -1>>, <<0, 0>>, <<0, 1>>, <<-1, 0>>, <<2, -3>>}

\* "ooo" of test_single_step, as from_str hands it to from_iter
Blinker == << <<0, -1>>, <<0, 0>>, <<0, 1>> >>

\* a row of seven cells on the top row of a depth-3 root
Row7 == [n \in 1..7 |-> <<-4, n - 5>>]

\* the glider of GLIDER[0], alone
Glider == << <<-1, 0>>, <<0, 1>>, <<1, -1>>, <<1, 0>>, <<1, 1>> >>

\* a line of n characters, 'o' in the columns os (counted from 0) and ' '
\* in the others
Line(n, os) == [x \in 1..n |-> IF x - 1 \in os THEN "o" ELSE " "]

\* L3_CROSS of tests.rs, line by line
L3_CROSS ==
    << <<>>,
       Line(16, {8, 15}), Line(16, {9, 14}), Line(16, {10, 13}), Line(16, {11, 12}),
       Line(16, {11, 12}), Line(16, {10, 13}), Line(16, {9, 14}), Line(16, {8, 15}) >>

\* "ooo" of test_single_step and "o" of test_single
Texts == {L3_CROSS, <<Line(3, {0, 1, 2})>>, <<Line(1, {0})>>}

\* the cells set_bit is called with in SpecLoad: inside the first root, on
\* its edges, and outside the roots of depth 2 and of depth 3
LoadPool ==
    {<<0, 0>>, <<-2, -2>>, <<1, 1>>, <<2, 1>>, <<-3, 3>>, <<3, -4>>, <<4, 0>>,
     <<-5, -1>>}

\* GLIDER[0] of tests.rs, a boat and a glider that moves away from it
GLIDER_0 ==
    << <<>>, Line(13, {3, 4, 12}), Line(14, {3, 5, 13}), Line(14, {4, 11, 12, 13}) >>

\* the boat of GLIDER[0] and its glider, each alone
BOAT == << Line(2, {0, 1}), Line(3, {0, 2}), Line(2, {1}) >>

GLIDER_ALONE == << Line(13, {12}), Line(14, {13}), Line(14, {11, 12, 13}) >>

\* the patterns of constant population: GLIDER[0], its parts, the blinker
PopTexts == {GLIDER_0, BOAT, GLIDER_ALONE, <<Line(3, {0, 1, 2})>>}

\* the characters of the texts of SpecParse: the two of the format, the line
\* separator, and two that are not of the format
Chars == {" ", "o", "\n", "x", "O"}

\* every text of at most MaxTextLen of these characters
ShortTexts == UNION {[1..n -> Chars] : n \in 0..MaxTextLen}

\* the nodes Universe::step is called on directly: roots of depth 2, 3 and 4
\* as from_iter leaves them, live cells on their edges included
EnginePatterns ==
    {Blinker, Glider, Row7, InOrder(BasicState_from_str(GLIDER_0).cells)}

\* the sixteen cells of a node of depth 2, row by row
BlockCells == [n \in 1..16 |-> <<((n - 1) \div 4) - 2, ((n - 1) % 4) - 2>>]

\* the cells of a block, given as sixteen booleans, in that order
BlockOrder(bits) ==
    LET Live(c) == bits[(c[1] + 2) * 4 + c[2] + 3]
    IN  SelectSeq(BlockCells, Live)

\* the block, a still life, about the origin
StillBlock == << <<-1, -1>>, <<-1, 0>>, <<0, -1>>, <<0, 0>> >>

\* the cell sequences from_iter is called with
Patterns == {Blinker, Glider}

DeepPatterns == {Blinker, Glider, Row7}

ClonePatterns == {Blinker, Glider}

EqPatterns == {Blinker}

\* the cells set_bit is called with in SpecEq
EqCellPool == {<<0, 0>>, <<0, 1>>, <<2, -3>>}

(***************************************************************************)
(* The state machine.                                                      *)
(***************************************************************************)
Init ==
    /\ hl = [i \in Inst |-> HashLife_new]
    /\ cur = 0
    /\ ssd = 0
    /\ stack = <<>>
    /\ done = <<>>
    /\ ref = [i \in Inst |-> {}]
    /\ calls = [i \in Inst |-> <<>>]
    /\ pre = {}

Call(op, arg) == [op |-> op, arg |-> arg]

\* the number of calls of op made on instance i
NumCalls(i, op) == Cardinality({n \in DOMAIN calls[i] : calls[i][n].op = op})

Idle == cur = 0

\* HashLife::from_iter(cells): a constructor, so on an instance nothing was
\* called on
FromIter(i, cells) ==
    /\ Idle
    /\ calls[i] = <<>>
    /\ hl' = [hl EXCEPT ![i] = from_iter(cells)]
    /\ ref' = [ref EXCEPT ![i] = Range(cells)]
    /\ calls' = [calls EXCEPT ![i] = <<Call("from_iter", cells)>>]
    /\ UNCHANGED <<cur, ssd, stack, done, pre>>

\* HashLife::from_str(text) returning Ok: the cells reach from_iter in the
\* order the HashSet yields them, row by row or the other way round
FromStr(i, text, order) ==
    /\ Idle
    /\ calls[i] = <<>>
    /\ HashLife_from_str(BasicState_from_str(text), order).ok
    /\ Range(order) = BasicState_from_str(text).cells
    /\ hl' = [hl EXCEPT ![i] = HashLife_from_str(BasicState_from_str(text), order).hl]
    /\ ref' = [ref EXCEPT ![i] = Range(order)]
    /\ calls' = [calls EXCEPT ![i] = <<Call("from_str", order)>>]
    /\ UNCHANGED <<cur, ssd, stack, done, pre>>

\* the order in which the cells of a parsed state reach from_iter
ParsedOrder(parsed) == IF parsed.ok THEN InOrder(parsed.cells) ELSE <<>>

\* HashLife::from_str(text) has returned r: the caller holds the world of
\* Ok(world) and no world after Err(message)
FromStrReturned(i, text, r) ==
    /\ hl' = IF r.ok THEN [hl EXCEPT ![i] = r.hl] ELSE hl
    /\ ref' = IF r.ok THEN [ref EXCEPT ![i] = LiveCells(r.hl)] ELSE ref
    /\ calls' = [calls EXCEPT ![i] = <<Call("from_str_text", [text |-> text, ret |-> r])>>]

\* HashLife::from_str(text), text a sequence of characters, whatever it
\* returns
FromStrText(i, text) ==
    /\ Idle
    /\ calls[i] = <<>>
    /\ FromStrReturned(i, text,
           HashLife_from_str(BasicState_from_str(lines(text)),
                             ParsedOrder(BasicState_from_str(lines(text)))))
    /\ UNCHANGED <<cur, ssd, stack, done, pre>>

\* HashLife::set_bit(c)
SetBit(i, c) ==
    /\ Idle
    /\ hl' = [hl EXCEPT ![i] = HashLife_set_bit(hl[i], c)]
    /\ ref' = [ref EXCEPT ![i] = @ \cup {c}]
    /\ calls' = [calls EXCEPT ![i] = Append(@, Call("set_bit", c))]
    /\ pre' = LiveCells(hl[i])
    /\ UNCHANGED <<cur, ssd, stack, done>>

\* the call of Universe::step on the instance h that HashLife::step prepared
EngineStart(i, h) ==
    /\ hl' = [hl EXCEPT ![i] = h]
    /\ stack' = <<StepState(h.root, h.depth)>>
    /\ done' = <<>>

\* HashLife::step(log2_steps), to the first line of Universe::step
StepCall(i, log2_steps) ==
    /\ Idle
    /\ EngineStart(i, step_prepare(hl[i], log2_steps + 2))
    /\ ssd' = log2_steps + 2
    /\ cur' = i
    /\ calls' = [calls EXCEPT ![i] = Append(@, Call("step", log2_steps))]
    /\ UNCHANGED <<ref, pre>>

\* universe.expand_universe(level, tr) for a branch tr of the store, level
\* its depth; the caller keeps the node returned as its root, as
\* HashLife::expand does
ExpandUniverse(i, tr) ==
    /\ Idle
    /\ ~hl[i].universe.nodes[tr].leaf
    /\ hl' = [hl EXCEPT ![i] =
                 Rooted(expand_universe(hl[i].universe, Height(hl[i].universe, tr), tr),
                        Height(hl[i].universe, tr) + 1)]
    /\ ref' = [ref EXCEPT ![i] =
                  NodeCells(hl[i].universe, tr, origin(Height(hl[i].universe, tr)))]
    /\ calls' = [calls EXCEPT ![i] = Append(@, Call("expand_universe", tr))]
    /\ UNCHANGED <<cur, ssd, stack, done, pre>>

\* universe.reframe(tr, p, z) for a branch tr of the store, p.z its depth;
\* the caller keeps the node returned as a root of depth z, as test_reframe
\* does
ReframeCall(i, tr, p, z) ==
    /\ Idle
    /\ ~hl[i].universe.nodes[tr].leaf
    /\ p.z = Height(hl[i].universe, tr)
    /\ hl' = [hl EXCEPT ![i] = Rooted(reframe(hl[i].universe, tr, p, z), z)]
    /\ ref' = [ref EXCEPT ![i] = NodeCells(hl[i].universe, tr, origin(p.z))]
    /\ calls' = [calls EXCEPT ![i] = Append(@, Call("reframe", [tr |-> tr, p |-> p, z |-> z]))]
    /\ UNCHANGED <<cur, ssd, stack, done, pre>>

\* P3::new(y, x, z): the coordinate a descent starts from
P3New(i, y, x, z) ==
    /\ Idle
    /\ calls[i] = <<>>
    /\ calls' = [calls EXCEPT ![i] = <<Call("P3::new", [p |-> P3(y, x, z)])>>]
    /\ UNCHANGED <<hl, cur, ssd, stack, done, ref, pre>>

\* the record of p.descend(): self the coordinate before the call, some and i
\* the Option returned, p the coordinate after it
Descended(self, d) == Call("descend", [self |-> self, some |-> d.some, i |-> d.i, p |-> d.p])

\* p.descend() on the coordinate the calls so far left, until it returned None
Descend(i) ==
    /\ Idle
    /\ calls[i] # <<>>
    /\ calls[i][Len(calls[i])].op = "descend" => calls[i][Len(calls[i])].arg.some
    /\ calls' = [calls EXCEPT ![i] =
                    Append(@, Descended(@[Len(@)].arg.p, descend(@[Len(@)].arg.p)))]
    /\ UNCHANGED <<hl, cur, ssd, stack, done, ref, pre>>

\* universe.step(root, depth, superspeed_depth) called on the root as it is,
\* to the first line of Universe::step
UniverseStep(i, superspeed_depth) ==
    /\ Idle
    /\ EngineStart(i, hl[i])
    /\ ssd' = superspeed_depth
    /\ cur' = i
    /\ calls' = [calls EXCEPT ![i] = Append(@, Call("universe_step", superspeed_depth))]
    /\ UNCHANGED <<ref, pre>>

\* universe.step(root, depth, superspeed_depth) on instance 1, instance 2
\* keeping the store and the root the call was made on
UniverseStepFrom(superspeed_depth) ==
    /\ Idle
    /\ hl[1].depth >= 2
    /\ hl' = [hl EXCEPT ![2] = hl[1]]
    /\ stack' = <<StepState(hl[1].root, hl[1].depth)>>
    /\ done' = <<>>
    /\ ssd' = superspeed_depth
    /\ cur' = 1
    /\ calls' = [calls EXCEPT ![1] = Append(@, Call("universe_step", superspeed_depth))]
    /\ UNCHANGED <<ref, pre>>

Running(state) ==
    /\ cur # 0
    /\ stack # <<>>
    /\ stack[Len(stack)].state = state

Top == stack[Len(stack)]

Popped == SubSeq(stack, 1, Len(stack) - 1)

universe == hl[cur].universe

SetUniverse(u) == hl' = [hl EXCEPT ![cur].universe = u]

\* State::Step(tr, depth)
EngineStep ==
    /\ Running("Step")
    /\ LET key == <<Top.tr, Top.depth <= ssd>>
       IN  IF key \in DOMAIN universe.next_gen
           THEN /\ done' = Append(done, universe.next_gen[key])
                /\ stack' = Popped
           ELSE /\ stack' = Popped \o <<UpdateCache(key[1], key[2]),
                                        Push9(Top.tr, Top.depth)>>
                /\ done' = done
    /\ UNCHANGED <<hl, cur, ssd, ref, calls, pre>>

\* done.push(tr) and the store of the call that returned r
DonePush(r, dn) ==
    /\ SetUniverse(r.u)
    /\ done' = Append(dn, r.tr)

\* State::Push9(tr, 2)
EnginePush9Base ==
    /\ Running("Push9")
    /\ Top.depth = 2
    /\ DonePush(l2_gen(universe, make_l2_bitmask(universe, Top.tr)), done)
    /\ stack' = Popped
    /\ UNCHANGED <<cur, ssd, ref, calls, pre>>

\* the else branch of Push9 with its two pushes exchanged: Pop4Into1 runs
\* before Pop9Into4
Push9Centres_pop4_first(sub) ==
    /\ SetUniverse(sub.u)
    /\ stack' = Popped \o <<Pop9Into4(Top.depth), Pop4Into1>>
    /\ done' = done \o Reverse(sub.trs)

\* the else branch of Push9, sub the nine centres in array order
Push9Centres(sub) ==
    /\ SetUniverse(sub.u)
    /\ stack' = Popped \o <<Pop4Into1, Pop9Into4(Top.depth)>>
    /\ done' = done \o Reverse(sub.trs)

\* Push9 from the two pushes on, l2_trees the nine reframed trees
Push9Trees(l2_trees) ==
    IF Top.depth <= ssd
    THEN /\ SetUniverse(l2_trees.u)
         /\ stack' = Popped \o <<Pop4Into1, Pop9Into4(Top.depth)>>
                            \o [n \in 1..9 |->
                                   StepState(l2_trees.trs[n], Top.depth - 1)]
         /\ done' = done
    ELSE Push9Centres(
             ReframeAll(Collected(l2_trees.u, <<>>),
                 [n \in 1..9 |-> [tr |-> l2_trees.trs[n], p |-> origin(2)]],
                 1, 1))

\* State::Push9(tr, depth)
EnginePush9 ==
    /\ Running("Push9")
    /\ Top.depth # 2
    /\ Push9Trees(ReframeAll(Collected(universe, <<>>), Nine(Top.tr), 2, 1))
    /\ UNCHANGED <<cur, ssd, ref, calls, pre>>

\* Pop9Into4 from the last map on, l2_trees the four canonical trees
Pop9Trees(l2_trees) ==
    /\ SetUniverse(l2_trees.u)
    /\ stack' = Popped \o [a \in 1..4 |-> StepState(l2_trees.trs[a], Top.depth - 1)]
    /\ done' = SubSeq(done, 1, Len(done) - 9)

\* State::Pop9Into4(depth); l1_trees[(i + j) / 3][(i + j) % 3] is what the
\* (i + j)-th pop returned
EnginePop9Into4 ==
    /\ Running("Pop9Into4")
    /\ Pop9Trees(
           CanonicaliseAll(Collected(universe, <<>>),
               [a \in 1..4 |->
                   Branch([b \in 1..4 |->
                       done[Len(done) - (<<0, 1, 3, 4>>[a] + <<0, 1, 3, 4>>[b])]])],
               1))
    /\ UNCHANGED <<cur, ssd, ref, calls, pre>>

\* State::Pop4Into1 with the four results in the order they were pushed, SE
\* first
EnginePop4Into1_as_pushed ==
    /\ Running("Pop4Into1")
    /\ DonePush(
           canonicalise(universe,
               Branch(<<done[Len(done) - 3], done[Len(done) - 2],
                        done[Len(done) - 1], done[Len(done)]>>)),
           SubSeq(done, 1, Len(done) - 4))
    /\ stack' = Popped
    /\ UNCHANGED <<cur, ssd, ref, calls, pre>>

\* State::Pop4Into1
EnginePop4Into1 ==
    /\ Running("Pop4Into1")
    /\ DonePush(
           canonicalise(universe,
               Branch(<<done[Len(done)], done[Len(done) - 1],
                        done[Len(done) - 2], done[Len(done) - 3]>>)),
           SubSeq(done, 1, Len(done) - 4))
    /\ stack' = Popped
    /\ UNCHANGED <<cur, ssd, ref, calls, pre>>

\* State::UpdateCache(key)
EngineUpdateCache ==
    /\ Running("UpdateCache")
    /\ SetUniverse([universe EXCEPT
           !.next_gen = (<<Top.tr, Top.flag>> :> done[Len(done)]) @@ @])
    /\ stack' = Popped
    /\ UNCHANGED <<cur, ssd, done, ref, calls, pre>>

\* the return of step without self.depth -= 1
StepReturn_keep_depth ==
    /\ cur # 0
    /\ stack = <<>>
    /\ hl' = [hl EXCEPT ![cur].root = done[Len(done)]]
    /\ done' = SubSeq(done, 1, Len(done) - 1)
    /\ ref' = [ref EXCEPT ![cur] = Generations(@, Shl(ssd - 2))]
    /\ cur' = 0
    /\ UNCHANGED <<ssd, stack, calls, pre>>

\* done.pop().unwrap() of Universe::step, and the last two lines of
\* HashLife::step; the reference world takes its 2^log2_steps generations
StepReturn ==
    /\ cur # 0
    /\ stack = <<>>
    /\ hl' = [hl EXCEPT ![cur].root = done[Len(done)], ![cur].depth = @ - 1]
    /\ done' = SubSeq(done, 1, Len(done) - 1)
    /\ ref' = [ref EXCEPT ![cur] = Generations(@, Shl(ssd - 2))]
    /\ cur' = 0
    /\ UNCHANGED <<ssd, stack, calls, pre>>

\* the return of a step of so many generations that the reference world is
\* not stepped along: it is left as it was, which is right for a still life
StepReturnFar ==
    /\ cur # 0
    /\ stack = <<>>
    /\ hl' = [hl EXCEPT ![cur].root = done[Len(done)], ![cur].depth = @ - 1]
    /\ done' = SubSeq(done, 1, Len(done) - 1)
    /\ cur' = 0
    /\ UNCHANGED <<ssd, stack, ref, calls, pre>>

Engine ==
    \/ EngineStep
    \/ EnginePush9Base
    \/ EnginePush9
    \/ EnginePop9Into4
    \/ EnginePop4Into1
    \/ EngineUpdateCache
    \/ StepReturn

\* HashLife::clone of instance 1 into instance 2: the two stores are equal
\* and from here on separate
Clone ==
    /\ Idle
    /\ calls[2] = <<>>
    /\ hl' = [hl EXCEPT ![2] = hl[1]]
    /\ ref' = [ref EXCEPT ![2] = ref[1]]
    /\ calls' = [i \in Inst |-> Append(calls[i], Call("clone", 0))]
    /\ UNCHANGED <<cur, ssd, stack, done, pre>>

\* one instance, built by from_iter or cell by cell, and stepped
Next ==
    \/ \E cells \in Patterns : FromIter(1, cells)
    \/ \E c \in CellPool : Len(calls[1]) < MaxCalls /\ SetBit(1, c)
    \/ \E k \in 0..MaxK : Len(calls[1]) < MaxCalls /\ StepCall(1, k)
    \/ Engine

Spec == Init /\ [][Next]_vars

\* one instance, built by from_iter and stepped once, by up to 2^MaxDeepK
\* generations
NextDeep ==
    \/ \E cells \in DeepPatterns : FromIter(1, cells)
    \/ \E k \in 0..MaxDeepK : calls[1] # <<>> /\ NumCalls(1, "step") < 1
                              /\ StepCall(1, k)
    \/ Engine

SpecDeep == Init /\ [][NextDeep]_vars

\* the calls made on instance i since the clone
SinceClone(i) ==
    LET at == {n \in DOMAIN calls[i] : calls[i][n].op = "clone"}
    IN  IF at = {} THEN <<>>
        ELSE SubSeq(calls[i], (CHOOSE n \in at : TRUE) + 1, Len(calls[i]))

\* a world w built by from_iter and some step calls, its clone, then one
\* step(k) on w and up to 2^k calls of step(0) on the clone
NextClone ==
    \/ \E cells \in ClonePatterns : FromIter(1, cells)
    \/ \E k \in 0..MaxK :
           /\ calls[1] # <<>>
           /\ calls[2] = <<>>
           /\ NumCalls(1, "step") < MaxPreSteps
           /\ StepCall(1, k)
    \/ calls[1] # <<>> /\ Clone
    \/ \E k \in 0..MaxK :
           /\ calls[2] # <<>>
           /\ SinceClone(1) = <<>>
           /\ StepCall(1, k)
    \/ /\ Len(SinceClone(1)) = 1
       /\ Len(SinceClone(2)) < Shl(SinceClone(1)[1].arg)
       /\ StepCall(2, 0)
    \/ Engine

SpecClone == Init /\ [][NextClone]_vars

\* two instances with a store each; the calls on instance 1 come first (the
\* instances share nothing, so the order between them changes no result)
NextEq ==
    \/ \E cells \in EqPatterns :
           \/ calls[2] = <<>> /\ FromIter(1, cells)
           \/ FromIter(2, cells)
    \/ \E c \in EqCellPool :
           \/ calls[2] = <<>> /\ Len(calls[1]) < MaxEqCalls /\ SetBit(1, c)
           \/ Len(calls[2]) < MaxEqCalls /\ SetBit(2, c)
    \/ /\ calls[2] = <<>>
       /\ Len(calls[1]) < MaxEqCalls
       /\ StepCall(1, 0)
    \/ /\ Len(calls[2]) < MaxEqCalls
       /\ StepCall(2, 0)
    \/ Engine

SpecEq == Init /\ [][NextEq]_vars

\* one instance, built by from_str, from_iter and set_bit, never stepped
NextLoad ==
    \/ \E text \in Texts :
           \E order \in {InOrder(BasicState_from_str(text).cells),
                         Reverse(InOrder(BasicState_from_str(text).cells))} :
               FromStr(1, text, order)
    \/ \E cells \in Patterns : FromIter(1, cells)
    \/ \E c \in LoadPool : Len(calls[1]) < MaxLoadCalls /\ SetBit(1, c)

SpecLoad == Init /\ [][NextLoad]_vars

\* one instance, parsed from a pattern of constant population and stepped
NextPop ==
    \/ \E text \in PopTexts :
           FromStr(1, text, InOrder(BasicState_from_str(text).cells))
    \/ \E k \in 0..MaxK :
           /\ calls[1] # <<>>
           /\ NumCalls(1, "step") < MaxPopSteps
           /\ StepCall(1, k)
    \/ Engine

\* Universe::step runs its loop to the end once called: weak fairness of
\* Engine, WF_vars(Engine), with ENABLED <<Engine>>_vars written as the state
\* predicate it amounts to, a call being under way (cur # 0): every arm of the
\* loop pops the stack or returns, and the pops whose unwrap could panic are
\* those of EngineCanRun
EngineFair == []<>Idle \/ []<><<Engine>>_vars

SpecPop == Init /\ [][NextPop]_vars /\ EngineFair

\* one instance, built by from_iter, and one call of Universe::step on its
\* root: the memo table is empty when the call starts
NextEngine ==
    \/ \E cells \in EnginePatterns : FromIter(1, cells)
    \/ \E superspeed_depth \in 2..MaxSuperspeedDepth :
           /\ Len(calls[1]) = 1
           /\ UniverseStep(1, superspeed_depth)
    \/ Engine

SpecEngine == Init /\ [][NextEngine]_vars

\* Universe::step(h.root, 2, 2) was called on the world h that from_iter made
\* of the cells of order, and has popped State::Step: the memo table is empty
BaseCaseOf(h, order) ==
    /\ hl = [i \in Inst |-> IF i = 1 THEN h ELSE HashLife_new]
    /\ ref = [i \in Inst |-> IF i = 1 THEN Range(order) ELSE {}]
    /\ calls = [i \in Inst |->
                   IF i = 1
                   THEN <<Call("from_iter", order), Call("universe_step", 2)>>
                   ELSE <<>>]
    /\ stack = <<UpdateCache(h.root, TRUE), Push9(h.root, 2)>>

\* the step engine about to run its base case on each of the 2^16 nodes of
\* depth 2
InitBase ==
    /\ \E bits \in [1..16 -> BOOLEAN] :
           BaseCaseOf(from_iter(BlockOrder(bits)), BlockOrder(bits))
    /\ cur = 1
    /\ ssd = 2
    /\ done = <<>>
    /\ pre = {}

\* the arms of the loop that are left to run
NextBase ==
    \/ EnginePush9Base
    \/ EngineUpdateCache
    \/ StepReturn

SpecBase == InitBase /\ [][NextBase]_vars

\* one instance, built by from_iter, and direct calls of expand_universe on
\* the branches of its store, the root and the nodes below it
NextExpand ==
    \/ \E cells \in DeepPatterns : FromIter(1, cells)
    \/ \E tr \in DOMAIN hl[1].universe.nodes :
           /\ calls[1] # <<>>
           /\ NumCalls(1, "expand_universe") < MaxExpands
           /\ ExpandUniverse(1, tr)

SpecExpand == Init /\ [][NextExpand]_vars

\* from_str called once, on any short text
NextParse == \E text \in ShortTexts : FromStrText(1, text)

SpecParse == Init /\ [][NextParse]_vars

\* one coordinate, inside the tree of its depth or not, descended until
\* descend returns None
NextDescend ==
    \/ \E z \in 0..MaxP3Depth :
           \E y, x \in -Shl(z)..Shl(z) : P3New(1, y, x, z)
    \/ Descend(1)

SpecDescend == Init /\ [][NextDescend]_vars

\* L3_CROSS of test_reframe and the patterns of the deep runs
ReframePatterns == {InOrder(BasicState_from_str(L3_CROSS).cells), Glider, Blinker}

\* one instance, built by from_iter, and direct calls of reframe on the
\* branches of its store, to the depths up to MaxCropDepth and about every
\* cell of theirs
NextReframe ==
    \/ \E cells \in ReframePatterns : FromIter(1, cells)
    \/ \E tr \in DOMAIN hl[1].universe.nodes :
           /\ calls[1] # <<>>
           /\ NumCalls(1, "reframe") < MaxReframes
           /\ ~hl[1].universe.nodes[tr].leaf
           /\ \E z \in 1..MaxCropDepth :
                  \E y, x \in -Shl(Height(hl[1].universe, tr) - 1)
                               ..Shl(Height(hl[1].universe, tr) - 1) - 1 :
                      ReframeCall(1, tr, P3(y, x, Height(hl[1].universe, tr)), z)

SpecReframe == Init /\ [][NextReframe]_vars

\* one instance, built by from_iter, and calls of Universe::step on its root
\* one after the other: the memo table is empty at the first call and holds
\* the entries of the earlier calls at the later ones
NextRec ==
    \/ \E cells \in EnginePatterns : FromIter(1, cells)
    \/ \E superspeed_depth \in 2..MaxSuperspeedDepth :
           /\ calls[1] # <<>>
           /\ NumCalls(1, "universe_step") < MaxRecSteps
           /\ UniverseStepFrom(superspeed_depth)
    \/ Engine

SpecRec == Init /\ [][NextRec]_vars /\ EngineFair

\* the block, built by from_iter and stepped once by 2^k generations, k up
\* to the first whose root is as deep as the word is wide, less one
NextWord ==
    \/ FromIter(1, StillBlock)
    \/ \E k \in 0..MaxWordK :
           /\ Len(calls[1]) = 1
           /\ StepCall(1, k)
    \/ EngineStep
    \/ EnginePush9Base
    \/ EnginePush9
    \/ EnginePop9Into4
    \/ EnginePop4Into1
    \/ EngineUpdateCache
    \/ StepReturnFar

SpecWord == Init /\ [][NextWord]_vars

(***************************************************************************)
(* C1: after step(k) on a world loaded from S, the iterated live cells are *)
(* S after 2^k reference generations (and after n calls of step(0), after  *)
(* n generations), at the same coordinates.                                *)
(***************************************************************************)
StepAgreesWithReference ==
    Idle => LiveCells(hl[1]) = ref[1]

\* SpecClone: the step(k) on the world and the 2^k calls of step(0) on its
\* clone have all returned
CloneStepsDone ==
    /\ Idle
    /\ Len(SinceClone(1)) = 1
    /\ Len(SinceClone(2)) = Shl(SinceClone(1)[1].arg)

(***************************************************************************)
(* C2: on a world reached by from_iter/set_bit and step calls, one call    *)
(* step(k) yields the same live cells as 2^k calls of step(0) on a clone   *)
(* of the world.                                                           *)
(***************************************************************************)
StepKEqualsRepeatedStep0 ==
    CloneStepsDone => LiveCells(hl[1]) = LiveCells(hl[2])

\* the entry next_gen[(n, f)] = m, for n of depth z: m is the centre of n
\* after 2^(z-2) generations if f, after one generation if not
MemoEntrySound(u, n, f, m, z) ==
    /\ z >= 2
    /\ Uniform(u, n, z)
    /\ Uniform(u, m, z - 1)
    /\ NodeCells(u, m, origin(z - 1))
           = Centre(Generations(NodeCells(u, n, origin(z)),
                                IF f THEN Shl(z - 2) ELSE 1), z)

(***************************************************************************)
(* C3: in every reachable state every memo entry next_gen[(n, f)] = m maps *)
(* a depth-z node n to the depth-(z-1) node m that is the centre of n      *)
(* after Delta generations, Delta = 2^(z-2) if f and 1 if not.             *)
(***************************************************************************)
MemoSound ==
    \A key \in DOMAIN hl[1].universe.next_gen :
        MemoEntrySound(hl[1].universe, key[1], key[2],
                       hl[1].universe.next_gen[key],
                       Height(hl[1].universe, key[1]))

(***************************************************************************)
(* C4: the store holds no two handles with the same node, and every node   *)
(* of the store interns to its own handle.                                 *)
(***************************************************************************)
Canonical ==
    \A i \in Inst :
        /\ Cardinality(Range(hl[i].universe.nodes)) = Len(hl[i].universe.nodes)
        /\ DOMAIN hl[i].universe.interned_nodes = Range(hl[i].universe.nodes)
        /\ \A tr \in DOMAIN hl[i].universe.nodes :
               hl[i].universe.interned_nodes[hl[i].universe.nodes[tr]] = tr

\* a step has returned into a store in which a branch holds the same live
\* subtree twice: canonicalise has been asked for a node it already had
CanonicalWitness ==
    /\ Idle
    /\ NumCalls(1, "step") >= 1
    /\ \E tr \in DOMAIN hl[1].universe.nodes :
           /\ ~hl[1].universe.nodes[tr].leaf
           /\ hl[1].universe.nodes[tr].subtree[1] = hl[1].universe.nodes[tr].subtree[4]
           /\ hl[1].universe.populations[hl[1].universe.nodes[tr].subtree[1]] > 0

\* the populations entry of handle tr is that of its node: 1 or 0 for a leaf,
\* the sum over the four children (all older handles) for a branch
PopulationOfNode(u, tr) ==
    /\ Len(u.populations) = Len(u.nodes)
    /\ IF u.nodes[tr].leaf
       THEN u.populations[tr] = IF u.nodes[tr].alive THEN 1 ELSE 0
       ELSE /\ \A n \in 1..4 : u.nodes[tr].subtree[n] \in 1..(tr - 1)
            /\ u.populations[tr]
                   = u.populations[u.nodes[tr].subtree[1]]
                     + u.populations[u.nodes[tr].subtree[2]]
                     + u.populations[u.nodes[tr].subtree[3]]
                     + u.populations[u.nodes[tr].subtree[4]]

(***************************************************************************)
(* C5: for every handle of every reachable store, population(h) is the     *)
(* number of live leaves under h: 1 or 0 for a leaf, the sum of the four   *)
(* children for a branch; between calls the root's population is the       *)
(* number of cells its tree denotes.                                       *)
(***************************************************************************)
PopulationCorrect ==
    /\ \A tr \in DOMAIN hl[1].universe.nodes : PopulationOfNode(hl[1].universe, tr)
    /\ Idle => population(hl[1].universe, hl[1].root)
                   = Cardinality(NodeCells(hl[1].universe, hl[1].root,
                                           origin(hl[1].depth)))

\* a world that set_bit, expand and the step engine have all worked on, with
\* live cells left
PopulationWitness ==
    /\ Idle
    /\ NumCalls(1, "step") >= 1
    /\ NumCalls(1, "set_bit") >= 1
    /\ hl[1].depth >= 3
    /\ population(hl[1].universe, hl[1].root) >= 4

\* no step has been called on instance i: it is HashLife::from_iter of the
\* cells handed to from_iter and to set_bit, in that order
Loaded(i) == NumCalls(i, "step") = 0 /\ NumCalls(i, "clone") = 0

(***************************************************************************)
(* C6: a world built by from_iter from the cells S yields, when iterated,  *)
(* every cell of S exactly once and nothing else, population(root) cells   *)
(* in all.                                                                 *)
(***************************************************************************)
RoundTrip ==
    (Idle /\ Loaded(1)) =>
        /\ Range(into_iter(hl[1])) = ref[1]
        /\ Len(into_iter(hl[1])) = Cardinality(ref[1])
        /\ Len(into_iter(hl[1])) = population(hl[1].universe, hl[1].root)

\* a loaded world of the cross and two cells outside its root, one of them
\* inserted twice
RoundTripWitness ==
    /\ Idle
    /\ Loaded(1)
    /\ Len(calls[1]) = 3
    /\ calls[1][1].op = "from_str"
    /\ calls[1][2] = calls[1][3]
    /\ Cardinality(ref[1]) = 17
    /\ Len(into_iter(hl[1])) = 17
    /\ hl[1].depth = 4

(***************************************************************************)
(* C7: a == b if and only if the depths are equal and the live cells are   *)
(* the same, each world in a store of its own.                             *)
(***************************************************************************)
EqIsSameDepthSameCells ==
    Idle =>
        (HashLife_eq(hl[1], hl[2])
            <=> /\ hl[1].depth = hl[2].depth
                /\ LiveCells(hl[1]) = LiveCells(hl[2]))

\* two worlds with different call histories, and so different handles for
\* the same cells, that compare equal
EqWitness ==
    /\ Idle
    /\ calls[1] # calls[2]
    /\ hl[1].root # hl[2].root
    /\ LiveCells(hl[1]) # {}
    /\ HashLife_eq(hl[1], hl[2])

\* two worlds of the same depth and population that compare unequal
EqWitnessUnequal ==
    /\ Idle
    /\ hl[1].depth = hl[2].depth
    /\ population(hl[1].universe, hl[1].root) = population(hl[2].universe, hl[2].root)
    /\ population(hl[1].universe, hl[1].root) > 0
    /\ ~HashLife_eq(hl[1], hl[2])

(***************************************************************************)
(* C8: after new() and after every set_bit and step call, depth >= 2 and   *)
(* the root is a tree of exactly depth branch levels.                      *)
(***************************************************************************)
RootHasDepth ==
    Idle => /\ hl[1].depth >= 2
            /\ Uniform(hl[1].universe, hl[1].root, hl[1].depth)

\* a step has returned to a world that set_bit had expanded
RootHasDepthWitness ==
    /\ Idle
    /\ NumCalls(1, "step") >= 1
    /\ NumCalls(1, "set_bit") >= 1
    /\ hl[1].depth >= 4

\* the latest call on instance 1 was set_bit(c), and it has returned
AfterSetBit(c) ==
    /\ Idle
    /\ calls[1] # <<>>
    /\ calls[1][Len(calls[1])] = Call("set_bit", c)

(***************************************************************************)
(* C9: set_bit((y, x)) on a world of live cells S leaves a world of live   *)
(* cells S \cup {(y, x)}, also when it has to expand the root first.       *)
(***************************************************************************)
SetBitAddsOneCell ==
    \A c \in CellPool :
        AfterSetBit(c) =>
            /\ LiveCells(hl[1]) = pre \cup {c}
            /\ NodeCells(hl[1].universe, hl[1].root, origin(hl[1].depth))
                   = pre \cup {c}

\* set_bit has expanded the root of a world that had live cells, and has
\* added a cell that was dead
SetBitWitness ==
    /\ AfterSetBit(<<2, -3>>)
    /\ Cardinality(pre) >= 3
    /\ <<2, -3>> \notin pre
    /\ hl[1].depth = 3

(***************************************************************************)
(* C10: a world built from the cells S by from_iter has the least depth    *)
(* D >= 2 with every cell of S in -2^(D-1) <= y, x < 2^(D-1), in whatever  *)
(* order the cells were inserted.                                          *)
(***************************************************************************)
DepthIsLeast ==
    (Idle /\ Loaded(1)) => hl[1].depth = LeastDepth(ref[1], 2)

\* the cross of L3_CROSS parsed from text, at depth 3
DepthIsLeastWitness ==
    /\ Idle
    /\ Len(calls[1]) = 1
    /\ calls[1][1].op = "from_str"
    /\ Cardinality(ref[1]) = 16
    /\ hl[1].depth = 3

\* two worlds of the same cells, inserted in different orders, the cell
\* that needs depth 4 first in the one and last in the other
DepthIsLeastOrderWitness ==
    /\ Idle
    /\ Loaded(1)
    /\ calls[1] = <<Call("set_bit", <<4, 0>>), Call("set_bit", <<3, -4>>),
                    Call("set_bit", <<1, 1>>)>>
    /\ hl[1].depth = 4

\* Universe::step was called and has not popped its first state
HandedToEngine ==
    /\ cur # 0
    /\ done = <<>>
    /\ stack = <<StepState(hl[cur].root, hl[cur].depth)>>

\* the block m of the quadrant n of the root: the block of quadrant n that
\* touches the centre of the root is the one opposite to n
OuterBlocks == {b \in (1..4) \X (1..4) : b[2] # 5 - b[1]}

(***************************************************************************)
(* C11: when step(k) hands the root (depth D) to the step engine, the      *)
(* twelve outer depth-(D-2) blocks of the root's 4x4 grid have population  *)
(* 0 and every live cell lies in the central depth-(D-1) subquadrant.      *)
(***************************************************************************)
OuterRingDead ==
    HandedToEngine =>
        /\ \A b \in OuterBlocks :
               population(universe,
                   subtree(universe, subtree(universe, hl[cur].root)[b[1]])[b[2]]) = 0
        /\ LiveCells(hl[cur]) = Centre(LiveCells(hl[cur]), hl[cur].depth)

\* a root of depth 3 with a cell outside its centre half, expanded twice
OuterRingDeadWitness ==
    /\ HandedToEngine
    /\ hl[cur].depth = 5
    /\ ssd = 2
    /\ <<2, -3>> \in LiveCells(hl[cur])

\* the nodes of the store of instance 1 that hold no live cell
DeadNodes ==
    {tr \in DOMAIN hl[1].universe.nodes :
        NodeCells(hl[1].universe, tr, origin(Height(hl[1].universe, tr))) = {}}

\* expand_universe(z, e), e what empty_tree(z) returned
ExpandedEmpty(e, z) == expand_universe(e.u, z, e.tr)

\* the handle x holds is the one empty_tree(z) returns on the store x holds
IsEmptyTree(x, z) == x.tr = empty_tree(x.u, z).tr

(***************************************************************************)
(* C12: in every reachable store a node of depth z without live cells has  *)
(* the handle empty_tree(z) returns, whether empty_trees[z] is cached yet  *)
(* or not, and expand_universe(z, empty(z)) returns the handle of          *)
(* empty(z+1), for every z >= 1.                                           *)
(***************************************************************************)
EmptyTreeUnique ==
    /\ \A tr \in DeadNodes :
           IsEmptyTree(Ret(hl[1].universe, tr), Height(hl[1].universe, tr))
    /\ \A z \in 1..hl[1].depth :
           IsEmptyTree(ExpandedEmpty(empty_tree(hl[1].universe, z), z), z + 1)

\* a dead node of a depth empty_trees has no entry for yet: expand built it
\* around an empty quadrant, or the step engine returned it
EmptyTreeUniqueWitness ==
    \E tr \in DeadNodes :
        /\ Height(hl[1].universe, tr) >= Len(hl[1].universe.empty_trees)
        /\ Height(hl[1].universe, tr) >= 3

\* the loop of Universe::step can take its next turn: the stack's top is a
\* state whose pops of done all find a value, or the stack is empty and
\* done holds the result
EngineCanRun ==
    \/ stack = <<>> /\ done # <<>>
    \/ Running("Step")
    \/ Running("Push9")
    \/ Running("Pop9Into4") /\ Len(done) >= 9
    \/ Running("Pop4Into1") /\ Len(done) >= 4
    \/ Running("UpdateCache") /\ done # <<>>

Parsed == calls[1] # <<>> /\ calls[1][1].op = "from_str_text"

ParsedText == calls[1][1].arg.text

ParsedRet == calls[1][1].arg.ret

\* the characters of the text that are not of the format
Offending == Range(ParsedText) \ {" ", "o", "\n"}

(***************************************************************************)
(* C14: HashLife::from_str returns Err with a message that holds the       *)
(* offending character whenever the text holds a character other than ' ', *)
(* 'o' and the line separator, and then returns no world; for a text of    *)
(* these characters alone it returns Ok.                                   *)
(***************************************************************************)
ParseErrorReported ==
    Parsed =>
        IF Offending # {}
        THEN /\ ~ParsedRet.ok
             /\ DOMAIN ParsedRet = {"ok", "err"}
             /\ \E c \in Offending : ParsedRet.err = "Unexpected character " \o c
        ELSE /\ ParsedRet.ok
             /\ hl[1] = ParsedRet.hl

\* a live cell on the first line, then two characters that are not of the
\* format: the message holds the first of them
ParseErrorWitness ==
    /\ Parsed
    /\ ParsedText = <<"o", "\n", "O", "x">>
    /\ ~ParsedRet.ok
    /\ ParsedRet.err = "Unexpected character O"

(***************************************************************************)
(* C15: after parsing a non-empty plain-text pattern the cell set is       *)
(* translated so that the top-left corner of its bounding box is (0, 0):   *)
(* the least y and the least x over the parsed cells are both 0.           *)
(***************************************************************************)
TopLeftAtOrigin ==
    Parsed /\ ParsedRet.ok /\ LiveCells(hl[1]) # {} =>
        /\ Min({c[1] : c \in LiveCells(hl[1])}) = 0
        /\ Min({c[2] : c \in LiveCells(hl[1])}) = 0

\* the one call of Universe::step of SpecEngine has returned
EngineReturned ==
    /\ Idle
    /\ Len(calls[1]) = 2
    /\ calls[1][2].op = "universe_step"

\* the centre of the node of depth z that holds the cells, n generations on
CentreAfter(cells, z, n) == Centre(Generations(cells, n), z)

(***************************************************************************)
(* C16: on a store with an empty memo table Universe::step(n, z,           *)
(* superspeed_depth) returns the central subquadrant of n after Delta      *)
(* generations, Delta = 2^(z-2) when z <= superspeed_depth and Delta = 1   *)
(* otherwise.                                                              *)
(***************************************************************************)
EngineStepDelta ==
    EngineReturned =>
        LiveCells(hl[1])
            = CentreAfter(Range(calls[1][1].arg), hl[1].depth + 1,
                  IF hl[1].depth + 1 <= calls[1][2].arg
                  THEN Shl(hl[1].depth - 1)
                  ELSE 1)

\* the cells of the node Universe::step was called on in SpecBase
Block == Range(calls[1][1].arg)

\* the next state of cell c of the block by B3/S23, from its own state and
\* its eight neighbours
NextAlive(c) ==
    \/ c \in Block /\ Cardinality(neighbours(c) \cap Block) \in {2, 3}
    \/ c \notin Block /\ Cardinality(neighbours(c) \cap Block) = 3

\* the four centre cells of a node of depth 2, in NW, NE, SW, SE order
CentreCells == << <<-1, -1>>, <<-1, 0>>, <<0, -1>>, <<0, 0>> >>

\* the n-th leaf of the node the base case pushed on done
BaseLeaf(n) == subtree(hl[1].universe, done[Len(done)])[n]

(***************************************************************************)
(* C17: for every one of the 2^16 nodes of depth 2 the base case of the    *)
(* step engine (make_l2_bitmask, then l2_gen) returns the node of depth 1  *)
(* whose leaves, in NW, NE, SW, SE order, are the B3/S23 next states of    *)
(* the centre cells (-1,-1), (-1,0), (0,-1), (0,0).                        *)
(***************************************************************************)
BaseCaseIsLife ==
    done # <<>> =>
        \A n \in 1..4 : alive(hl[1].universe, BaseLeaf(n)) = NextAlive(CentreCells[n])

\* a birth in NW, a death by overcrowding in NE, a dead cell with two live
\* neighbours that stays dead in SW and a survival in SE, in one block
BaseCaseWitness ==
    /\ done # <<>>
    /\ <<-1, -1>> \notin Block /\ alive(hl[1].universe, BaseLeaf(1))
    /\ <<-1, 0>> \in Block /\ ~alive(hl[1].universe, BaseLeaf(2))
    /\ Cardinality(neighbours(<<-1, 0>>) \cap Block) >= 4
    /\ <<0, -1>> \notin Block /\ ~alive(hl[1].universe, BaseLeaf(3))
    /\ Cardinality(neighbours(<<0, -1>>) \cap Block) = 2
    /\ <<0, 0>> \in Block /\ alive(hl[1].universe, BaseLeaf(4))

\* the last call on instance 1 was expand_universe(z, h), and the node it
\* returned is the root
Expanded ==
    /\ calls[1] # <<>>
    /\ calls[1][Len(calls[1])].op = "expand_universe"

ExpandedNode == calls[1][Len(calls[1])].arg

\* the block m of the quadrant n of the root, a node two levels below it
RootBlock(b) == subtree(hl[1].universe, subtree(hl[1].universe, hl[1].root)[b[1]])[b[2]]

\* the blocks of the root's 4x4 grid around its centre subquadrant
Surrounding == ((1..4) \X (1..4)) \ {<<1, 4>>, <<2, 3>>, <<3, 2>>, <<4, 1>>}

\* the centre subquadrant of the root is the node h and every block around
\* it is empty(z - 1), z the depth of h
CentreKeptRingEmpty ==
    /\ Height(hl[1].universe, hl[1].root) = Height(hl[1].universe, ExpandedNode) + 1
    /\ hl[1].universe.nodes[ExpandedNode]
           = Branch(<<RootBlock(<<1, 4>>), RootBlock(<<2, 3>>),
                      RootBlock(<<3, 2>>), RootBlock(<<4, 1>>)>>)
    /\ \A b \in Surrounding :
           IsEmptyTree(Ret(hl[1].universe, RootBlock(b)),
                       Height(hl[1].universe, ExpandedNode) - 1)

(***************************************************************************)
(* C18, as stated: expand_universe(z, h) returns a node of depth z + 1     *)
(* whose centre subquadrant is h and whose eight surrounding subquadrants  *)
(* of depth z - 1 are empty(z - 1).                                        *)
(***************************************************************************)
ExpandSurroundsWithEight ==
    Expanded => CentreKeptRingEmpty /\ Cardinality(Surrounding) = 8

(***************************************************************************)
(* C18, amended: expand_universe(z, h) returns a node of depth z + 1 whose *)
(* centre subquadrant is h and whose twelve surrounding subquadrants of    *)
(* depth z - 1 are empty(z - 1).                                           *)
(***************************************************************************)
ExpandSurroundsWithTwelve ==
    Expanded => CentreKeptRingEmpty /\ Cardinality(Surrounding) = 12

\* expand_universe(1, h) on a node of depth 1 with a live cell, and on a node
\* of depth 3
ExpandWitness ==
    /\ Expanded
    /\ Len(calls[1]) = 3
    /\ calls[1][2].op = "expand_universe"
    /\ Height(hl[1].universe, calls[1][2].arg) = 1
    /\ population(hl[1].universe, calls[1][2].arg) > 0
    /\ Height(hl[1].universe, ExpandedNode) = 3


\* the calls of descend made so far on the coordinate of instance 1
Descents == {calls[1][n].arg : n \in {m \in DOMAIN calls[1] : calls[1][m].op = "descend"}}

\* the quadrant of the tree of depth z about (0, 0) that holds the cell (y, x)
QuadrantOf(y, x) ==
    IF y < 0 /\ x < 0 THEN 0
    ELSE IF y < 0 THEN 1
    ELSE IF x < 0 THEN 2
    ELSE 3

\* the centre of child i of the tree of depth z about (0, 0)
QuadrantCentre(z, i) == quadrants(origin(z))[i + 1]

\* descend on d.self went into the child holding the cell and left the
\* cell's offset from the centre of that child, one depth down
WentIntoChild(d) ==
    /\ d.some
    /\ d.i = QuadrantOf(d.self.y, d.self.x)
    /\ contains(QuadrantCentre(d.self.z, d.i), P3(d.self.y, d.self.x, 0))
    /\ d.p = P3(d.self.y - QuadrantCentre(d.self.z, d.i).y,
                d.self.x - QuadrantCentre(d.self.z, d.i).x,
                d.self.z - 1)
    /\ within_tree(d.p)

(***************************************************************************)
(* C19: on a coordinate p with z >= 1 inside the tree of its depth,        *)
(* descend returns the index of the child quadrant holding the cell (0 NW, *)
(* 1 NE, 2 SW, 3 SE) and leaves p one depth down at the cell's offset from *)
(* that child's centre, inside the child's tree again, so that z calls end *)
(* at (0, 0, 0); on a coordinate with z = 0 it returns None and leaves p   *)
(* as it was.                                                              *)
(***************************************************************************)
DescendIntoChild ==
    /\ \A d \in Descents :
           /\ d.self.z >= 1 /\ within_tree(d.self) => WentIntoChild(d)
           /\ d.self.z = 0 => ~d.some /\ d.p = d.self
    /\ /\ calls[1] # <<>>
       /\ within_tree(calls[1][1].arg.p)
       /\ Len(calls[1]) >= 1 + calls[1][1].arg.p.z
       => calls[1][1 + calls[1][1].arg.p.z].arg.p = origin(0)

\* the corner cell (-4, 3) of the tree of depth 3 was descended three times,
\* through the NE quadrants, to (0, 0, 0), and the fourth call returned None
DescendWitness ==
    /\ Len(calls[1]) = 5
    /\ calls[1][1].arg.p = P3(-4, 3, 3)
    /\ calls[1][2].arg.i = 1
    /\ calls[1][2].arg.p = P3(-2, 1, 2)
    /\ calls[1][4].arg.p = origin(0)
    /\ ~calls[1][5].arg.some


\* the latest call on instance 1 was a call of reframe
Reframed == calls[1] # <<>> /\ calls[1][Len(calls[1])].op = "reframe"

ReframedArg == calls[1][Len(calls[1])].arg

\* the offsets (dy, dx) of the window of depth z about its centre
Window(z) == {<<dy, dx>> \in (-Shl(z - 1)..Shl(z - 1) - 1) \X (-Shl(z - 1)..Shl(z - 1) - 1) : TRUE}

\* the window of depth z about p lies inside the footprint of a node of depth
\* p.z
WindowInside(p, z) ==
    /\ -Shl(p.z - 1) <= p.y - Shl(z - 1) /\ p.y + Shl(z - 1) <= Shl(p.z - 1)
    /\ -Shl(p.z - 1) <= p.x - Shl(z - 1) /\ p.x + Shl(z - 1) <= Shl(p.z - 1)

(***************************************************************************)
(* C20: for a node h of depth d and a coordinate p with p.z = d whose      *)
(* window of depth z' lies inside h's footprint, reframe(h, p, z') returns *)
(* a node of depth z' whose cell at (dy, dx) is h's cell at                *)
(* (p.y + dy, p.x + dx), for every (dy, dx) of the window.                 *)
(***************************************************************************)
ReframeCrops ==
    Reframed /\ WindowInside(ReframedArg.p, ReframedArg.z) =>
        /\ Height(hl[1].universe, hl[1].root) = ReframedArg.z
        /\ NodeCells(hl[1].universe, hl[1].root, origin(ReframedArg.z))
               = {c \in Window(ReframedArg.z) :
                     <<ReframedArg.p.y + c[1], ReframedArg.p.x + c[2]>> \in ref[1]}

\* test_reframe: the crop of depth 2 of L3_CROSS about (1, 1), the block at
\* the centre of the cross and two cells of its south-east arm
ReframeWitness ==
    /\ Len(calls[1]) = 2
    /\ Reframed
    /\ ReframedArg.p = P3(1, 1, 3)
    /\ ReframedArg.z = 2
    /\ ref[1] = BasicState_from_str(L3_CROSS).cells
    /\ NodeCells(hl[1].universe, hl[1].root, origin(2))
           = {<<-2, -2>>, <<-2, -1>>, <<-1, -2>>, <<-1, -1>>, <<0, 0>>, <<1, 1>>}


\* the cell (y, x) lies in the footprint of a node of depth d about (0, 0)
InFootprint(y, x, d) == InRange(Shl(d - 1), y) /\ InRange(Shl(d - 1), x)

\* the offsets of the window of the latest reframe whose cells lie outside
\* the footprint of the node it was called on
OutsideOffsets ==
    {c \in Window(ReframedArg.z) :
        ~InFootprint(ReframedArg.p.y + c[1], ReframedArg.p.x + c[2], ReframedArg.p.z)}

(***************************************************************************)
(* C21: when the window asked of reframe(h, p, z') lies partly outside h's *)
(* footprint, every cell of the result that falls outside the footprint is *)
(* dead, as if get_node returned empty(0) there.                           *)
(***************************************************************************)
OutsideReadsDead ==
    Reframed =>
        NodeCells(hl[1].universe, hl[1].root, origin(ReframedArg.z)) \cap OutsideOffsets = {}


\* a read of get_node: the coordinate it descends and the depth of the node
\* tr of the store u that it walks
Read(u, tr, p) == [p |-> p, height |-> Height(u, tr)]

\* the reads of the nine-way split a Push9 on top of the work stack makes
SplitReads ==
    {Read(universe, Top.tr, q) :
        q \in UNION {reframe_reads(Nine(Top.tr)[n].p, 2) : n \in 1..9}}

\* the reads of the centre crops of a Push9 above superspeed_depth, l2_trees
\* what its nine-way split returns
CropReads(l2_trees) ==
    {Read(l2_trees.u, l2_trees.trs[n], q) :
        n \in 1..9, q \in reframe_reads(origin(2), 1)}

\* the reads of get_node that the engine step about to run makes
EngineReads ==
    IF ~Running("Push9") THEN {}
    ELSE IF Top.depth = 2
         THEN {Read(universe, Top.tr, q) : q \in make_l2_bitmask_reads}
    ELSE IF Top.depth <= ssd THEN SplitReads
    ELSE SplitReads
         \cup CropReads(ReframeAll(Collected(universe, <<>>), Nine(Top.tr), 2, 1))

\* the descent of the latest set_bit of instance i
SetBitReads(i) ==
    IF calls[i] # <<>> /\ calls[i][Len(calls[i])].op = "set_bit"
    THEN {Read(hl[i].universe, hl[i].root,
               P3(calls[i][Len(calls[i])].arg[1], calls[i][Len(calls[i])].arg[2],
                  hl[i].depth))}
    ELSE {}

\* the descent of the latest set_bit, and the reads of the centre check of a
\* step called now, on every instance
FacadeReads ==
    IF ~Idle THEN {}
    ELSE UNION {{Read(hl[i].universe, hl[i].root, q) : q \in reframe_reads(origin(2), 1)}
                \cup SetBitReads(i) : i \in Inst}

(***************************************************************************)
(* C22: during any sequence of set_bit and step(k) calls, every coordinate *)
(* that reaches get_node (the descent of set_bit, the centre check, the    *)
(* nine-way split and the centre crops of the engine, the 4x4 scan of the  *)
(* base case) lies within the tree of the depth it is read at, and the     *)
(* node it is applied to is at least that deep.                            *)
(***************************************************************************)
ReadsInBounds ==
    \A r \in EngineReads \cup FacadeReads :
        /\ within_tree(r.p)
        /\ r.p.z <= r.height

\* a Push9 of a node of depth 3 above superspeed_depth is about to split and
\* crop, in a world a set_bit outside the first root has expanded
ReadsWitness ==
    /\ Running("Push9")
    /\ Top.depth >= 3
    /\ Top.depth > ssd
    /\ \E n \in DOMAIN calls[cur] :
           /\ calls[cur][n].op = "set_bit"
           /\ ~within_tree(P3(calls[cur][n].arg[1], calls[cur][n].arg[2], 2))


\* the branch of the four results; stepped.trs holds them as they returned,
\* SE first
BranchOfFour(stepped) ==
    CASE Len(stepped.trs) = 4 ->
        canonicalise(stepped.u,
            Branch(<<stepped.trs[4], stepped.trs[3], stepped.trs[2], stepped.trs[1]>>))

\* the four overlapping groupings NW = {0,1,3,4}, NE = {1,2,4,5},
\* SW = {3,4,6,7}, SE = {4,5,7,8} of the nine nodes l1 (0..8 row-major),
\* canonicalised in that order
Regrouped(u, l1) ==
    CanonicaliseAll(Collected(u, <<>>),
        [a \in 1..4 |->
            Branch([b \in 1..4 |-> l1[<<0, 1, 3, 4>>[a] + <<0, 1, 3, 4>>[b] + 1]])],
        1)

\* the results collected last node first, put back in array order
InArrayOrder(acc) == Collected(acc.u, Reverse(acc.trs))

RECURSIVE step_recursive(_, _, _, _)
RECURSIVE StepEach(_, _, _, _, _)
\* the recursive steps on the nodes trs[n], ..., trs[1], the last node first
\* as the work stack pops them; acc.trs holds the results as they returned
StepEach(acc, trs, depth, superspeed_depth, n) ==
    IF n = 0
    THEN acc
    ELSE CASE Len(acc.trs) = Len(trs) - n ->
             StepEach(Collect(acc, step_recursive(acc.u, trs[n], depth, superspeed_depth)),
                      trs, depth, superspeed_depth, n - 1)

\* the four recursive steps on the regrouped nodes and the final branch
StepFour(four, depth, superspeed_depth) ==
    CASE Len(four.trs) = 4 ->
        BranchOfFour(StepEach(Collected(four.u, <<>>), four.trs, depth,
                              superspeed_depth, 4))

\* the regrouping of the nine nodes of depth z - 2 and what follows
StepNine(l1_trees, depth, superspeed_depth) ==
    CASE Len(l1_trees.trs) = 9 ->
        StepFour(Regrouped(l1_trees.u, l1_trees.trs), depth - 1, superspeed_depth)

\* from the nine subquadrants l2_trees on: their steps when the flag is on,
\* their centres when it is off, 0..8 row-major, then the regrouping
StepSplit(l2_trees, depth, superspeed_depth) ==
    CASE Len(l2_trees.trs) = 9 ->
        IF depth <= superspeed_depth
        THEN StepNine(
                 InArrayOrder(StepEach(Collected(l2_trees.u, <<>>), l2_trees.trs,
                                       depth - 1, superspeed_depth, 9)),
                 depth, superspeed_depth)
        ELSE StepNine(
                 ReframeAll(Collected(l2_trees.u, <<>>),
                     [n \in 1..9 |-> [tr |-> l2_trees.trs[n], p |-> origin(2)]], 1, 1),
                 depth, superspeed_depth)

\* the memo entry of key stored after computing r
Memoised(key, r) ==
    CASE r.tr > 0 -> Ret([r.u EXCEPT !.next_gen = (key :> r.tr) @@ @], r.tr)

\* the recursive definition of the step engine: memo lookup, base case or
\* nine subquadrants, regrouping, four recursive steps, final branch, memo
\* store
step_recursive(u, tr, depth, superspeed_depth) ==
    IF <<tr, depth <= superspeed_depth>> \in DOMAIN u.next_gen
    THEN Ret(u, u.next_gen[<<tr, depth <= superspeed_depth>>])
    ELSE Memoised(<<tr, depth <= superspeed_depth>>,
             IF depth = 2
             THEN l2_gen(u, make_l2_bitmask(u, tr))
             ELSE StepSplit(ReframeAll(Collected(u, <<>>), Nine(tr), 2, 1),
                            depth, superspeed_depth))

\* a call of Universe::step on instance 1 has returned
RecReturned ==
    /\ Idle
    /\ calls[1] # <<>>
    /\ calls[1][Len(calls[1])].op = "universe_step"

\* what the recursive definition returns on the store and the root the
\* latest call was made on: the handle and the store it leaves
RecursiveResult == step_recursive(hl[2].universe, hl[2].root, hl[2].depth, ssd)

\* the handle and the store are those of the recursive definition
SameAsRecursive(r) == r.tr = hl[1].root /\ r.u = hl[1].universe

(***************************************************************************)
(* C23: the work-stack machine of Universe::step (Step, Push9, Pop9Into4,  *)
(* Pop4Into1, UpdateCache and the result stack) terminates and returns the *)
(* handle the recursive definition gives on the same store: memo lookup,   *)
(* nine subquadrants in row-major order, regrouping into NW = {0,1,3,4},   *)
(* NE = {1,2,4,5}, SW = {3,4,6,7}, SE = {4,5,7,8}, four recursive steps,   *)
(* and the branch of the four results in NW, NE, SW, SE order.             *)
(***************************************************************************)
MachineIsRecursion ==
    /\ [](RecReturned => SameAsRecursive(RecursiveResult))
    /\ [](cur # 0 => EngineCanRun)
    /\ (cur # 0) ~> Idle

\* the first call has returned from the depth-4 root of GLIDER[0] with
\* superspeed_depth 3: the flag off at the root and on below it, the nine
\* steps, the regrouping and the four steps all taken, and cells left
RecWitness ==
    /\ RecReturned
    /\ NumCalls(1, "universe_step") = 1
    /\ hl[2].depth = 4
    /\ ssd = 3
    /\ population(hl[1].universe, hl[1].root) > 0


\* a call of reframe by its arguments p and z
Reframing(p, z) == [p |-> p, z |-> z]

\* the calls of reframe that a step called now (the centre check) or the
\* engine step about to run (the nine-way split, the centre crops) makes
ReframesAhead ==
    IF Idle THEN {Reframing(origin(2), 1)}
    ELSE IF ~Running("Push9") \/ Top.depth = 2 THEN {}
    ELSE {Reframing(Nine(Top.tr)[n].p, 2) : n \in 1..9}
         \cup (IF Top.depth <= ssd THEN {} ELSE {Reframing(origin(2), 1)})

\* every Canonicalise of the run finds four results and one is left at the
\* end, pops the lengths ReframePops gives
FourEachOneLeft(pops) ==
    /\ \A n \in 1..Len(pops) - 1 : pops[n] >= 4
    /\ pops[Len(pops)] = 1

(***************************************************************************)
(* C24: in every run of Universe::step and of reframe started by a facade  *)
(* operation the result stack never underflows: each Pop9Into4 finds at    *)
(* least nine results, each Pop4Into1 and each Canonicalise at least four, *)
(* each UpdateCache at least one, and exactly one handle is left on the    *)
(* result stack when the work stack is empty.                              *)
(***************************************************************************)
NoStackUnderflow ==
    /\ Running("Pop9Into4") => Len(done) >= 9
    /\ Running("Pop4Into1") => Len(done) >= 4
    /\ Running("UpdateCache") => Len(done) >= 1
    /\ cur # 0 /\ stack = <<>> => Len(done) = 1
    /\ \A r \in ReframesAhead :
           FourEachOneLeft(ReframePops(<<Reframe([r.p EXCEPT !.z = r.z])>>, 0))

\* the work stack of a step on a root of depth 4 or more has emptied with
\* one handle on the result stack, the root's entry in the memo table
StepDoneWitness ==
    /\ cur # 0
    /\ stack = <<>>
    /\ Len(done) = 1
    /\ hl[cur].depth >= 4
    /\ <<hl[cur].root, hl[cur].depth <= ssd>> \in DOMAIN hl[cur].universe.next_gen
    /\ hl[cur].universe.next_gen[<<hl[cur].root, hl[cur].depth <= ssd>>] = done[1]


\* a step on instance 1 has returned
WideStepReturned ==
    /\ Idle
    /\ Len(calls[1]) = 2
    /\ calls[1][2].op = "step"

(***************************************************************************)
(* C25: at every depth the facade reaches through step(k), whatever k, the *)
(* shifts 1 << z and -1 << z of quadrants, descend and contains do not     *)
(* overflow the machine word, so iterating the live cells after step(k)    *)
(* yields their coordinates: for the block, the cells it was built from.   *)
(***************************************************************************)
IterationSurvivesDepth ==
    WideStepReturned => LiveCells(hl[1]) = ref[1]

====
